---- MODULE Spec2Model ----
(***************************************************************************)
(* A model of the iterative DNS resolver of resolver.go and of the         *)
(* dispatcher loop of main.go.                                             *)
(*                                                                         *)
(* Every goroutine started by main runs handlePacket, which calls dnsQuery.*)
(* dnsQuery calls itself for nameservers without glue, so a goroutine owns *)
(* a stack of dnsQuery frames.  A frame holds the locals of dnsQuery that  *)
(* are still read later; a local is reset to its zero value once the code  *)
(* does not read it any more.  The upstream servers are the environment:   *)
(* the header and every section of a reply are chosen when the code parses *)
(* them (the parser of dnsmessage is lazy), from the sample sets below.    *)
(* The listening socket is taken to accept every write.                    *)
(***************************************************************************)
EXTENDS Integers, Sequences, FiniteSets, TLC

VARIABLES
    tpc,      \* per goroutine: position in main / handlePacket
    req,      \* per goroutine: the client datagram it handles
    stack,    \* per goroutine: the dnsQuery frames, innermost last
    ret,      \* per goroutine: the value a dnsQuery call has just returned
    qid,      \* per goroutine: Header.ID of the latest outgoing query (-1: none yet)
    out,      \* per goroutine: the datagrams written to the listening socket
    herr      \* per goroutine: the error handlePacket returned ("" is nil)

vars == <<tpc, req, stack, ret, qid, out, herr>>

----------------------------------------------------------------------------
(* Bounds and program constants *)

\* Nesting of dnsQuery calls explored (the code has no such limit).
MaxDepth == 2

\* The goroutines of the model, and those that Spec runs.
Goroutines == {1, 2}
Tasks == {1}

\* resolver.go:121, the iteration limit of dnsQuery.
RoundsOff == 3 + 1
Rounds == 3

\* resolver.go:30, ^uint16(0).
MaxUint16 == 65535

\* resolver.go:14 and getRootServers: the fields of ROOT_SERVERS between commas.
ROOT_SERVERS ==
    << "198.41.0.4", "199.9.14.201", "192.33.4.12", "199.7.91.13",
       "192.203.230.10", "192.5.5.241", "192.112.36.4", "198.97.190.53" >>

getRootServers == ROOT_SERVERS

----------------------------------------------------------------------------
(* Sample data of the environment *)

RR(name, type, data) == [name |-> name, type |-> type, data |-> data]

ExampleCom == "example.com."
NsA == "a.iana-servers.net."
NsB == "b.iana-servers.net."

AExample == RR(ExampleCom, "A", "93.184.216.34")
ANsA == RR(NsA, "A", "199.43.135.53")
ANsB == RR(NsB, "A", "199.43.133.53")
AOther == RR("c.iana-servers.net.", "A", "192.0.2.1")
AAAANsA == RR(NsA, "AAAA", "2001:500:8f::53")
CName == RR(ExampleCom, "CNAME", "www.example.com.")
NSofA == RR(ExampleCom, "NS", NsA)
NSofB == RR(ExampleCom, "NS", NsB)
SOARec == RR(ExampleCom, "SOA", "ns.icann.org.")

\* What AllAnswers, AllAuthorities and AllAdditionals can yield.
AnswerSamples == { <<>>, <<AExample>>, <<CName, ANsA>> }
AuthoritySamples == { <<>>, <<NSofA>>, <<SOARec>>, <<NSofA, NSofB>> }
AdditionalSamples == { <<>>, <<ANsA>>, <<AOther>>, <<AAAANsA, ANsB>>, <<AOther, ANsA>> }

\* The 16-bit values tried as transaction IDs.
IdSamples == {0, 65534, 65535}

\* The client datagrams read by main: sender, header ID, and whether
\* p.Start and p.Question of handlePacket can parse them.
Requests ==
    { [addr |-> "10.0.0.1:5353", id |-> 4660,  parse |-> "ok",       name |-> ExampleCom],
      [addr |-> "10.0.0.2:5353", id |-> 65535, parse |-> "ok",       name |-> ExampleCom],
      [addr |-> "10.0.0.1:5353", id |-> 4660,  parse |-> "ok",       name |-> NsA],
      [addr |-> "10.0.0.1:5353", id |-> 4660,  parse |-> "header",   name |-> ""],
      [addr |-> "10.0.0.2:5353", id |-> 65535, parse |-> "question", name |-> ""] }

NoRequest == [addr |-> "", id |-> 0, parse |-> "none", name |-> ""]

----------------------------------------------------------------------------
(* Values of the program *)

\* dnsmessage.Header and dnsmessage.Message, the fields the program sets or reads.
ZeroHeader == [id |-> 0, auth |-> FALSE]

ZeroMessage ==
    [id |-> 0, response |-> FALSE, authoritative |-> FALSE,
     rcode |-> "Success", answers |-> <<>>]

Question(name, type) == [name |-> name, type |-> type, class |-> "INET"]

\* resolver.go:137-142
ResolvedMessageNoAnswers(answers) == [ZeroMessage EXCEPT !.response = TRUE]
ResolvedMessageAuthoritative(answers) ==
    [ZeroMessage EXCEPT !.response = TRUE, !.authoritative = TRUE, !.answers = answers]
ResolvedMessage(answers) ==
    [ZeroMessage EXCEPT !.response = TRUE, !.answers = answers]

\* resolver.go:153-157
NameErrorMessageOff == [ZeroMessage EXCEPT !.rcode = "ServerFailure"]
NameErrorMessage == [ZeroMessage EXCEPT !.rcode = "NameError"]

\* resolver.go:226-230
ServerFailureMessage == [ZeroMessage EXCEPT !.rcode = "ServerFailure"]

\* The three values a call of dnsQuery hands to its caller.
NoRet == [kind |-> "none", err |-> "", msg |-> ZeroMessage]
ErrRet(e) == [kind |-> "err", err |-> e, msg |-> ZeroMessage]
MsgRet(m) == [kind |-> "msg", err |-> "", msg |-> m]

\* The errors outgoingDnsQuery returns, by the statement that fails, and
\* those of the section parsers called by dnsQuery itself.
TransportErrors == {"rand", "pack", "connect", "write", "read", "start", "questions"}
SectionErrors == {"answers", "authorities", "additionals"}

\* A fresh frame of dnsQuery(servers, question), resolver.go:117-121.
NewFrame(servers, question) ==
    [question |-> question, servers |-> servers, i |-> 0, pc |-> "query",
     conn |-> "", questions |-> 0, hdr |-> ZeroHeader, parsedAnswers |-> <<>>,
     authorities |-> <<>>, nameservers |-> <<>>, additionals |-> <<>>,
     newServersFound |-> FALSE, k |-> 0,
     calls |-> 0,       \* history: calls of outgoingDnsQuery made by this frame
     via |-> "caller",  \* history: where servers comes from (caller, glue, lookup)
     lean |-> TRUE,     \* history: every round so far ended without any address
     clean |-> TRUE]    \* history: no nameserver lookup of this call, or of a
                        \* lookup that returned to it, has ended in an error

----------------------------------------------------------------------------
(* Pure parts of dnsQuery and outgoingDnsQuery *)

\* resolver.go:33, rand.Int(rand.Reader, big.NewInt(int64(max))): a value in [0, max).
RandInt(max) == {n \in IdSamples : 0 <= n /\ n < max}

\* resolver.go:48, message.Pack(): packing the question fails for a name that
\* is not canonical.  Names parsed from a datagram end in a dot; the only
\* other name the program builds is MustNewName("") (resolver.go:202).
Canonical(name) == name # ""

DialOrRoot(servers, down) ==
    IF servers = <<>> THEN getRootServers[1]
    ELSE IF \A n \in 1..Len(servers) : servers[n] \in down THEN ""
    ELSE servers[CHOOSE n \in 1..Len(servers) :
                    /\ servers[n] \notin down
                    /\ \A m \in 1..(n - 1) : servers[m] \in down]

\* resolver.go:53-64: the first server of the list whose Dial succeeds,
\* "" when there is none (conn stays nil).
RECURSIVE Dial(_, _)
Dial(servers, down) ==
    IF servers = <<>> THEN ""
    ELSE IF Head(servers) \notin down THEN Head(servers)
    ELSE Dial(Tail(servers), down)

\* The sets of servers that refuse a Dial, as tried by the model.
DownSamples(servers) ==
    {{}} \cup (IF servers = <<>> THEN {}
               ELSE {{servers[1]}, {servers[n] : n \in 1..Len(servers)}})

\* resolver.go:160-168: one slot per authority, filled for NS records only.
Nameservers(authorities) ==
    [n \in 1..Len(authorities) |->
        IF authorities[n].type = "NS" THEN authorities[n].data ELSE ""]

\* resolver.go:186-191: the inner loop, for one additional record.
RECURSIVE MatchNameservers(_, _)
MatchNameservers(additional, nameservers) ==
    IF nameservers = <<>> THEN <<>>
    ELSE (IF additional.name = Head(nameservers) THEN <<additional.data>> ELSE <<>>)
         \o MatchNameservers(additional, Tail(nameservers))

\* resolver.go:180-193: the addresses appended to servers by the glue loop.
RECURSIVE GlueServersAnyOwner(_, _)
GlueServersAnyOwner(additionals, nameservers) ==
    IF additionals = <<>> THEN <<>>
    ELSE (IF Head(additionals).type = "A" THEN <<Head(additionals).data>> ELSE <<>>)
         \o GlueServersAnyOwner(Tail(additionals), nameservers)

RECURSIVE GlueServers(_, _)
GlueServers(additionals, nameservers) ==
    IF additionals = <<>> THEN <<>>
    ELSE (IF Head(additionals).type = "A"
          THEN MatchNameservers(Head(additionals), nameservers) ELSE <<>>)
         \o GlueServers(Tail(additionals), nameservers)

\* resolver.go:187-188: newServersFound after the glue loop, which sets it
\* at every address it appends.
GlueFoundNever(glue) == FALSE
GlueFound(glue) == glue # <<>>

\* resolver.go:213-218: the addresses of the A records among the answers.
RECURSIVE AnswerAddrs(_)
AnswerAddrs(answers) ==
    IF answers = <<>> THEN <<>>
    ELSE (IF Head(answers).type = "A" THEN <<Head(answers).data>> ELSE <<>>)
         \o AnswerAddrs(Tail(answers))

\* resolver.go:256-257: response.ID = header.ID.
SetIDKeep(response, id) == response
SetID(response, id) == [response EXCEPT !.id = id]

\* resolver.go:259-263, response.Pack(): the header of the datagram (ID, the
\* QR and AA bits, RCODE, ANCOUNT) and the answer records.
Pack(m) ==
    [id |-> m.id, qr |-> IF m.response THEN 1 ELSE 0,
     aa |-> IF m.authoritative THEN 1 ELSE 0, rcode |-> m.rcode,
     ancount |-> Len(m.answers), answers |-> m.answers]

\* resolver.go:265-266, pc.WriteTo(responseBuf, addr).
WriteToFirstSender(buf, addr) == [to |-> "10.0.0.1:5353", buf |-> buf]
WriteTo(buf, addr) == [to |-> addr, buf |-> buf]

\* resolver.go:252-254: what handlePacket writes when dnsQuery returned an error.
OnErrorServerFailure(r) == <<WriteTo(Pack(SetID(ServerFailureMessage, r.id)), r.addr)>>
OnError(r) == <<>>

----------------------------------------------------------------------------
(* State *)

Top(t) == stack[t][Len(stack[t])]

Running(t, pc) == stack[t] # <<>> /\ Top(t).pc = pc /\ ret[t].kind = "none"

SetTop(t, f) == stack' = [stack EXCEPT ![t] = [@ EXCEPT ![Len(@)] = f]]

\* The innermost call has returned; its frame stays until the caller has
\* taken the value.
Returned(t) == stack[t] # <<>> /\ ret[t].kind # "none"

\* The frame below the innermost one, and the stack once the innermost call
\* is over and its caller's frame has become g.
Caller(t) == stack[t][Len(stack[t]) - 1]
BackTo(t, g) == [n \in 1..(Len(stack[t]) - 1) |->
                    IF n = Len(stack[t]) - 1 THEN g ELSE stack[t][n]]

\* resolver.go:207-209: what the error r of a nameserver lookup makes of the
\* calling frame g and of its own result: a warning, and the loop goes on.
OnLookupErrorReturn(g, r) == [frame |-> g, ret |-> r]
OnLookupError(g, r) ==
    [frame |-> [g EXCEPT !.pc = "lookup", !.k = @ + 1, !.clean = FALSE],
     ret |-> NoRet]

\* return r, from the frame in state f.
Return(t, f, r) ==
    /\ SetTop(t, f)
    /\ ret' = [ret EXCEPT ![t] = r]

\* resolver.go:121 (i++ and the test) and 225-230: the end of an iteration.
EndOfRound(t, f) ==
    IF f.i + 1 < Rounds
    THEN /\ SetTop(t, [f EXCEPT !.i = f.i + 1, !.pc = "query", !.hdr = ZeroHeader,
                               !.nameservers = <<>>, !.newServersFound = FALSE,
                               !.k = 0,
                               !.lean = /\ f.lean
                                        /\ f.servers = <<>>
                                        /\ \A n \in 1..Len(f.nameservers) :
                                              f.nameservers[n] # ""])
         /\ UNCHANGED ret
    ELSE Return(t, f, MsgRet(ServerFailureMessage))

Init ==
    /\ tpc = [t \in Goroutines |-> "idle"]
    /\ req = [t \in Goroutines |-> NoRequest]
    /\ stack = [t \in Goroutines |-> <<>>]
    /\ ret = [t \in Goroutines |-> NoRet]
    /\ qid = [t \in Goroutines |-> -1]
    /\ out = [t \in Goroutines |-> <<>>]
    /\ herr = [t \in Goroutines |-> ""]

----------------------------------------------------------------------------
(* main and handlePacket *)

\* main.go:23-33: a datagram is read and a goroutine started for it.
Accept(t, d) ==
    /\ tpc[t] = "idle"
    /\ tpc' = [tpc EXCEPT ![t] = "handle"]
    /\ req' = [req EXCEPT ![t] = d]
    /\ UNCHANGED <<stack, ret, qid, out, herr>>

\* resolver.go:236-248: p.Start or p.Question fails.
HandleParseError(t) ==
    /\ tpc[t] = "handle"
    /\ req[t].parse # "ok"
    /\ tpc' = [tpc EXCEPT ![t] = "done"]
    /\ herr' = [herr EXCEPT ![t] = req[t].parse]
    /\ UNCHANGED <<req, stack, ret, qid, out>>

\* resolver.go:236-251: the question is parsed and dnsQuery called.
HandleResolve(t) ==
    /\ tpc[t] = "handle"
    /\ req[t].parse = "ok"
    /\ tpc' = [tpc EXCEPT ![t] = "resolve"]
    /\ stack' = [stack EXCEPT ![t] =
                    <<NewFrame(getRootServers, Question(req[t].name, "A"))>>]
    /\ UNCHANGED <<req, ret, qid, out, herr>>

\* resolver.go:251-254: dnsQuery returned an error.
HandleError(t) ==
    /\ tpc[t] = "resolve" /\ Len(stack[t]) = 1 /\ ret[t].kind = "err"
    /\ tpc' = [tpc EXCEPT ![t] = "done"]
    /\ herr' = [herr EXCEPT ![t] = ret[t].err]
    /\ out' = [out EXCEPT ![t] = @ \o OnError(req[t])]
    /\ stack' = [stack EXCEPT ![t] = <<>>]
    /\ ret' = [ret EXCEPT ![t] = NoRet]
    /\ UNCHANGED <<req, qid>>

\* resolver.go:251-271: dnsQuery returned a message.
HandleReply(t) ==
    /\ tpc[t] = "resolve" /\ Len(stack[t]) = 1 /\ ret[t].kind = "msg"
    /\ tpc' = [tpc EXCEPT ![t] = "done"]
    /\ out' = [out EXCEPT ![t] =
                  Append(@, WriteTo(Pack(SetID(ret[t].msg, req[t].id)), req[t].addr))]
    /\ stack' = [stack EXCEPT ![t] = <<>>]
    /\ ret' = [ret EXCEPT ![t] = NoRet]
    /\ UNCHANGED <<req, qid, herr>>

\* resolver.go:275-279: the goroutine ends.
Exit(t) ==
    /\ tpc[t] = "done"
    /\ tpc' = [tpc EXCEPT ![t] = "idle"]
    /\ req' = [req EXCEPT ![t] = NoRequest]
    /\ qid' = [qid EXCEPT ![t] = -1]
    /\ out' = [out EXCEPT ![t] = <<>>]
    /\ herr' = [herr EXCEPT ![t] = ""]
    /\ UNCHANGED <<stack, ret>>

----------------------------------------------------------------------------
(* outgoingDnsQuery *)

\* resolver.go:29-75: which statement of the first half fails, "" if none.
SendError(f, randok, down, writeok) ==
    IF ~randok THEN "rand"
    ELSE IF ~Canonical(f.question.name) THEN "pack"
    ELSE IF Dial(f.servers, down) = "" THEN "connect"
    ELSE IF ~writeok THEN "write"
    ELSE ""

\* resolver.go:124 and 26-75: dnsQuery calls outgoingDnsQuery, which draws
\* the ID, packs the query, dials and writes; then it blocks in Read.
Send(t) ==
    /\ Running(t, "query")
    /\ \E id \in RandInt(MaxUint16), randok \in BOOLEAN, writeok \in BOOLEAN,
          down \in DownSamples(Top(t).servers) :
        LET f == [Top(t) EXCEPT !.calls = @ + 1, !.questions = 0]
            e == SendError(f, randok, down, writeok)
        IN  /\ qid' = [qid EXCEPT ![t] = IF randok THEN id ELSE @]
            /\ IF e # ""
               THEN Return(t, f, ErrRet(e))
               ELSE /\ SetTop(t, [f EXCEPT !.pc = "read",
                                           !.conn = Dial(f.servers, down)])
                    /\ UNCHANGED ret
    /\ UNCHANGED <<tpc, req, out, herr>>

\* The datagrams an upstream server may answer with: whether p.Start can
\* parse the header, the questions AllQuestions finds, and the header's ID
\* and AA bit.
Datagrams ==
    { [start |-> FALSE, questions |-> 0, hdr |-> ZeroHeader] }
    \cup { [start |-> TRUE, questions |-> n, hdr |-> ZeroHeader] : n \in {0, 2} }
    \cup { [start |-> TRUE, questions |-> 1, hdr |-> [id |-> id, auth |-> a]] :
              id \in {0, 65535}, a \in BOOLEAN }

RecvErrorNoCount(d) == IF ~d.start THEN "start" ELSE ""

\* resolver.go:89-110: the error of the second half for a datagram, "" if none.
\* len(message.Questions) is 1 (resolver.go:45).
RecvError(d) ==
    IF ~d.start THEN "start"
    ELSE IF d.questions # 1 THEN "questions"
    ELSE ""

\* resolver.go:80-84: Read fails.
RecvFail(t) ==
    /\ Running(t, "read")
    /\ Return(t, Top(t), ErrRet("read"))
    /\ UNCHANGED <<tpc, req, qid, out, herr>>

\* resolver.go:80-113 and 124-127: a datagram is read and its header and
\* questions parsed.
Recv(t) ==
    /\ Running(t, "read")
    /\ \E d \in Datagrams :
        LET f == [Top(t) EXCEPT !.questions = IF d.start THEN d.questions ELSE 0]
        IN  IF RecvError(d) # ""
            THEN Return(t, f, ErrRet(RecvError(d)))
            ELSE /\ SetTop(t, [f EXCEPT !.pc = "answers", !.conn = "", !.hdr = d.hdr])
                 /\ UNCHANGED ret
    /\ UNCHANGED <<tpc, req, qid, out, herr>>

----------------------------------------------------------------------------
(* dnsQuery *)

\* resolver.go:129-133: AllAnswers fails.
AnswersFail(t) ==
    /\ Running(t, "answers")
    /\ Return(t, Top(t), ErrRet("answers"))
    /\ UNCHANGED <<tpc, req, qid, out, herr>>

\* resolver.go:129-130: AllAnswers.
ReadAnswers(t) ==
    /\ Running(t, "answers")
    /\ \E s \in AnswerSamples :
        SetTop(t, [Top(t) EXCEPT !.pc = "authoritative", !.parsedAnswers = s])
    /\ UNCHANGED <<tpc, req, ret, qid, out, herr>>

\* resolver.go:135-143: an authoritative reply ends the resolution.
ReturnAuthoritative(t) ==
    /\ Running(t, "authoritative")
    /\ Top(t).hdr.auth
    /\ Return(t, Top(t), MsgRet(ResolvedMessage(Top(t).parsedAnswers)))
    /\ UNCHANGED <<tpc, req, qid, out, herr>>

\* resolver.go:136 and 145: the reply is not authoritative.
NotAuthoritative(t) ==
    /\ Running(t, "authoritative")
    /\ ~Top(t).hdr.auth
    /\ SetTop(t, [Top(t) EXCEPT !.pc = "authorities", !.parsedAnswers = <<>>])
    /\ UNCHANGED <<tpc, req, ret, qid, out, herr>>

\* resolver.go:145-149: AllAuthorities fails.
AuthoritiesFail(t) ==
    /\ Running(t, "authorities")
    /\ Return(t, Top(t), ErrRet("authorities"))
    /\ UNCHANGED <<tpc, req, qid, out, herr>>

\* resolver.go:145-146: AllAuthorities.
ReadAuthorities(t) ==
    /\ Running(t, "authorities")
    /\ \E s \in AuthoritySamples :
        SetTop(t, [Top(t) EXCEPT !.pc = "nameservers", !.authorities = s])
    /\ UNCHANGED <<tpc, req, ret, qid, out, herr>>

\* resolver.go:151-158: no authority at all.
ReturnNameError(t) ==
    /\ Running(t, "nameservers")
    /\ Len(Top(t).authorities) = 0
    /\ Return(t, Top(t), MsgRet(NameErrorMessage))
    /\ UNCHANGED <<tpc, req, qid, out, herr>>

\* resolver.go:160-168: the nameservers of the authorities.
CollectNameservers(t) ==
    /\ Running(t, "nameservers")
    /\ Len(Top(t).authorities) # 0
    /\ SetTop(t, [Top(t) EXCEPT !.pc = "additionals",
                                !.nameservers = Nameservers(Top(t).authorities),
                                !.authorities = <<>>])
    /\ UNCHANGED <<tpc, req, ret, qid, out, herr>>

\* resolver.go:170-174: AllAdditionals fails.
AdditionalsFail(t) ==
    /\ Running(t, "additionals")
    /\ Return(t, Top(t), ErrRet("additionals"))
    /\ UNCHANGED <<tpc, req, qid, out, herr>>

\* resolver.go:170-171: AllAdditionals.
ReadAdditionals(t) ==
    /\ Running(t, "additionals")
    /\ \E s \in AdditionalSamples :
        SetTop(t, [Top(t) EXCEPT !.pc = "glue", !.additionals = s])
    /\ UNCHANGED <<tpc, req, ret, qid, out, herr>>

\* resolver.go:176-196: servers is rebuilt from the glue; with glue the
\* iteration is over, without it the nameservers are looked up.
MatchGlue(t) ==
    /\ Running(t, "glue")
    /\ LET glue == GlueServers(Top(t).additionals, Top(t).nameservers)
           f == [Top(t) EXCEPT !.servers = glue, !.newServersFound = GlueFound(glue),
                               !.additionals = <<>>, !.hdr = ZeroHeader,
                               !.via = IF GlueFound(glue) THEN "glue" ELSE "lookup"]
       IN  IF f.newServersFound
           THEN EndOfRound(t, f)
           ELSE /\ SetTop(t, [f EXCEPT !.pc = "lookup", !.k = 1])
                /\ UNCHANGED ret
    /\ UNCHANGED <<tpc, req, qid, out, herr>>

\* resolver.go:199-205: dnsQuery is called for the next nameserver.
LookupNameserver(t) ==
    /\ Running(t, "lookup")
    /\ Top(t).k <= Len(Top(t).nameservers)
    /\ ~Top(t).newServersFound
    /\ Len(stack[t]) < MaxDepth
    /\ stack' = [stack EXCEPT ![t] =
                    Append([@ EXCEPT ![Len(@)] = [Top(t) EXCEPT !.pc = "called"]],
                           NewFrame(getRootServers,
                                    Question(Top(t).nameservers[Top(t).k], "A")))]
    /\ UNCHANGED <<tpc, req, ret, qid, out, herr>>

\* resolver.go:199-200: new servers were found, the nameserver is passed over.
SkipNameserver(t) ==
    /\ Running(t, "lookup")
    /\ Top(t).k <= Len(Top(t).nameservers)
    /\ Top(t).newServersFound
    /\ SetTop(t, [Top(t) EXCEPT !.k = @ + 1])
    /\ UNCHANGED <<tpc, req, ret, qid, out, herr>>

\* resolver.go:199 and 221-223: the loop over the nameservers is over.
LookupsDone(t) ==
    /\ Running(t, "lookup")
    /\ Top(t).k > Len(Top(t).nameservers)
    /\ EndOfRound(t, Top(t))
    /\ UNCHANGED <<tpc, req, qid, out, herr>>

\* resolver.go:207-209: the lookup of the nameserver returned an error.
LookupFailed(t) ==
    /\ Len(stack[t]) > 1 /\ ret[t].kind = "err"
    /\ stack' = [stack EXCEPT ![t] = BackTo(t, OnLookupError(Caller(t), ret[t]).frame)]
    /\ ret' = [ret EXCEPT ![t] = OnLookupError(Caller(t), ret[t]).ret]
    /\ UNCHANGED <<tpc, req, qid, out, herr>>

\* resolver.go:210-218: the lookup of the nameserver returned a message.
LookupReturned(t) ==
    /\ Len(stack[t]) > 1 /\ ret[t].kind = "msg"
    /\ stack' = [stack EXCEPT ![t] =
                    BackTo(t, [Caller(t) EXCEPT
                                  !.pc = "lookup", !.k = @ + 1,
                                  !.newServersFound = TRUE,
                                  !.clean = @ /\ Top(t).clean,
                                  !.servers = @ \o AnswerAddrs(ret[t].msg.answers)])]
    /\ ret' = [ret EXCEPT ![t] = NoRet]
    /\ UNCHANGED <<tpc, req, qid, out, herr>>

----------------------------------------------------------------------------
(* Specification *)

Step(t) ==
    \/ \E d \in Requests : Accept(t, d)
    \/ HandleParseError(t)
    \/ HandleResolve(t)
    \/ HandleError(t)
    \/ HandleReply(t)
    \/ Exit(t)
    \/ Send(t)
    \/ RecvFail(t)
    \/ Recv(t)
    \/ AnswersFail(t)
    \/ ReadAnswers(t)
    \/ ReturnAuthoritative(t)
    \/ NotAuthoritative(t)
    \/ AuthoritiesFail(t)
    \/ ReadAuthorities(t)
    \/ ReturnNameError(t)
    \/ CollectNameservers(t)
    \/ AdditionalsFail(t)
    \/ ReadAdditionals(t)
    \/ MatchGlue(t)
    \/ LookupNameserver(t)
    \/ SkipNameserver(t)
    \/ LookupsDone(t)
    \/ LookupFailed(t)
    \/ LookupReturned(t)

Next == \E t \in Tasks : Step(t)

Spec == Init /\ [][Next]_vars

\* main.go:23-34 with two requests in flight: goroutine 1 runs as above, and
\* goroutine 2 serves a request whose upstream server never answers, so its
\* conn.Read (resolver.go:80, no deadline is set) never returns.
Unanswered(t) ==
    \/ \E d \in {r \in Requests : r.parse = "ok" /\ r.id = 65535} : Accept(t, d)
    \/ HandleResolve(t)
    \/ HandleError(t)
    \/ Exit(t)
    \/ Send(t)

NextConc == Step(1) \/ Unanswered(2)

SpecConc == Init /\ [][NextConc]_vars

----------------------------------------------------------------------------
(* Properties *)

IsResolved(m) == m.response /\ m.rcode = "Success"
IsNameError(m) == m.rcode = "NameError"
IsServerFailure(m) == m.rcode = "ServerFailure"

\* Goroutine t takes a step of dnsQuery or of handlePacket.
Moves(t) == stack'[t] # stack[t] \/ ret'[t] # ret[t] \/ tpc'[t] # tpc[t]

Frames(t) == {stack[t][n] : n \in 1..Len(stack[t])}

\* C1, as claimed: an invocation of dnsQuery makes at most 3 calls of
\* outgoingDnsQuery of its own, and returns either an error of one of these
\* calls or a Message that is Resolved, NameError or ServerFailure.
C1_Claimed ==
    \A t \in Goroutines :
        /\ \A f \in Frames(t) : f.calls <= 3
        /\ Returned(t) =>
            \/ ret[t].kind = "err" /\ ret[t].err \in TransportErrors
            \/ /\ ret[t].kind = "msg"
               /\ IsResolved(ret[t].msg) \/ IsNameError(ret[t].msg)
                     \/ IsServerFailure(ret[t].msg)

\* C1, amended: an invocation of dnsQuery makes at most 3 calls of
\* outgoingDnsQuery of its own, and returns an error of one of these calls,
\* an error of AllAnswers, AllAuthorities or AllAdditionals on a reply, or a
\* Message that is Resolved, NameError or ServerFailure.
C1_TerminationBound ==
    \A t \in Goroutines :
        /\ \A f \in Frames(t) : f.calls <= 3
        /\ Returned(t) =>
            \/ ret[t].kind = "err" /\ ret[t].err \in TransportErrors \cup SectionErrors
            \/ /\ ret[t].kind = "msg"
               /\ IsResolved(ret[t].msg) \/ IsNameError(ret[t].msg)
                     \/ IsServerFailure(ret[t].msg)

\* C1, witness: an invocation returns ServerFailure after its third call.
C1_Witness ==
    \E t \in Goroutines :
        /\ Returned(t) /\ Top(t).calls = 3
        /\ ret[t].kind = "msg" /\ IsServerFailure(ret[t].msg)

\* C2: every datagram written back for a request carries the transaction ID
\* of the request, whatever IDs the upstream queries carried and whatever
\* the outcome of the resolution.
C2_IdIntegrity ==
    \A t \in Goroutines :
        \A n \in 1..Len(out[t]) : out[t][n].buf.id = req[t].id

\* C2, witness: a reply was written after an upstream query whose ID differs
\* from the request's.
C2_Witness ==
    \E t \in Goroutines :
        /\ Len(out[t]) = 1 /\ out[t][1].buf.id = req[t].id
        /\ qid[t] # -1 /\ qid[t] # req[t].id
        /\ out[t][1].buf.rcode = "NameError"

\* C3: when the header of the reply of a round is authoritative, the next
\* step of dnsQuery returns a Message with the Response flag set and exactly
\* the answers of that reply (also none); no frame is pushed, no query sent
\* and neither AllAuthorities nor AllAdditionals is called.
C3_AuthoritativeStops ==
    [][\A t \in Goroutines :
        (Running(t, "authoritative") /\ Top(t).hdr.auth /\ Moves(t)) =>
            /\ Len(stack'[t]) = Len(stack[t])
            /\ ret'[t].kind = "msg"
            /\ ret'[t].msg.response
            /\ ret'[t].msg.answers = Top(t).parsedAnswers
            /\ stack'[t][Len(stack[t])].pc = "authoritative"
            /\ qid'[t] = qid[t]]_vars

\* C3, witness: dnsQuery has returned on an authoritative reply without answers.
C3_Witness ==
    \E t \in Goroutines :
        /\ Returned(t) /\ Top(t).pc = "authoritative" /\ Top(t).hdr.auth
        /\ Top(t).parsedAnswers = <<>>
        /\ ret[t].kind = "msg" /\ ret[t].msg.response /\ ret[t].msg.answers = <<>>

\* The scenario of C4: the top-level resolution of (example.com, A, INET) is
\* in its second round, sent to the glue address 199.43.135.53 of round 1,
\* and the reply is authoritative with the answer A=93.184.216.34.
C4_Scenario(t) ==
    /\ Len(stack[t]) = 1
    /\ Top(t).question = Question(ExampleCom, "A")
    /\ Top(t).i = 1 /\ Top(t).via = "glue" /\ Top(t).servers = <<"199.43.135.53">>
    /\ Top(t).pc = "authoritative" /\ Top(t).hdr.auth
    /\ Top(t).parsedAnswers = <<AExample>>

\* C4, as claimed: in the scenario the final Message has the Authoritative
\* flag set and carries exactly the answer A=93.184.216.34.
C4_Claimed ==
    \A t \in Goroutines :
        (C4_Scenario(t) /\ Returned(t)) =>
            /\ ret[t].kind = "msg"
            /\ ret[t].msg.authoritative
            /\ ret[t].msg.answers = <<AExample>>

\* C4, amended: in the scenario the final Message has the Response flag set,
\* not the Authoritative flag, and carries exactly the answer A=93.184.216.34.
C4_ScenarioResult ==
    \A t \in Goroutines :
        (C4_Scenario(t) /\ Returned(t)) =>
            /\ ret[t].kind = "msg"
            /\ ret[t].msg.response /\ ~ret[t].msg.authoritative
            /\ ret[t].msg.rcode = "Success"
            /\ ret[t].msg.answers = <<AExample>>

\* C4, witness: the scenario has run and dnsQuery has returned.
C4_Witness ==
    \E t \in Goroutines :
        C4_Scenario(t) /\ Returned(t) /\ Len(ret[t].msg.answers) = 1

\* C5: when the reply of a round is not authoritative and has no authority
\* record, the next step of dnsQuery returns a Message with result code
\* NameError and no answer; no frame is pushed and no query sent.
C5_NameError ==
    [][\A t \in Goroutines :
        (/\ Running(t, "nameservers")
         /\ ~Top(t).hdr.auth /\ Top(t).authorities = <<>>
         /\ Moves(t)) =>
            /\ Len(stack'[t]) = Len(stack[t])
            /\ ret'[t].kind = "msg"
            /\ ret'[t].msg.rcode = "NameError"
            /\ ret'[t].msg.answers = <<>>
            /\ qid'[t] = qid[t]]_vars

\* C5, witness: dnsQuery has returned NameError on such a reply.
C5_Witness ==
    \E t \in Goroutines :
        /\ Returned(t) /\ Top(t).pc = "nameservers"
        /\ ~Top(t).hdr.auth /\ Top(t).authorities = <<>>
        /\ ret[t].kind = "msg" /\ IsNameError(ret[t].msg)

\* C6, as claimed: an invocation of dnsQuery whose rounds so far all ended
\* in a delegation to NS hostnames without glue, none of which resolved to
\* an address, returns a Message with result code ServerFailure and no
\* error (the random source working).
C6_Claimed ==
    \A t \in Goroutines :
        (/\ Returned(t) /\ Top(t).lean /\ Top(t).i >= 1
         /\ ret[t].err # "rand") =>
            ret[t].kind = "msg" /\ IsServerFailure(ret[t].msg)

\* The additional records of frame f that are A records owned by one of its
\* nameservers.
GlueMatches(f) ==
    {a \in 1..Len(f.additionals) :
        /\ f.additionals[a].type = "A"
        /\ \E n \in 1..Len(f.nameservers) : f.additionals[a].name = f.nameservers[n]}

\* C7: when the additionals of a non-authoritative reply hold an A record
\* whose owner is one of the nameservers of that reply, the step that
\* matches the glue ends the round without a call of dnsQuery, and the next
\* round, if there is one, has exactly the matching addresses as servers.
C7_GluePreference ==
    [][\A t \in Goroutines :
        (Running(t, "glue") /\ GlueMatches(Top(t)) # {} /\ Moves(t)) =>
            /\ Len(stack'[t]) = Len(stack[t])
            /\ IF Top(t).i + 1 < 3
               THEN LET g == stack'[t][Len(stack[t])]
                    IN  /\ g.pc = "query" /\ g.i = Top(t).i + 1
                        /\ ret'[t].kind = "none"
                        /\ {g.servers[n] : n \in 1..Len(g.servers)} =
                             {Top(t).additionals[a].data : a \in GlueMatches(Top(t))}
               ELSE ret'[t].kind = "msg"]_vars

\* C7, witness: a round starts with the glue address of the previous round
\* and nothing was looked up.
C7_Witness ==
    \E t \in Goroutines :
        /\ Running(t, "query") /\ Len(stack[t]) = 1
        /\ Top(t).i = 1 /\ Top(t).via = "glue"
        /\ Top(t).servers = <<"199.43.135.53">>

\* C8, as claimed: while the lookups of a round have yielded no address, the
\* next nameserver in the order of the authority section is looked up.
C8_Claimed ==
    [][\A t \in Goroutines :
        (/\ Running(t, "lookup")
         /\ Top(t).k <= Len(Top(t).nameservers)
         /\ Top(t).servers = <<>>
         /\ Len(stack[t]) < MaxDepth
         /\ Moves(t)) =>
            /\ Len(stack'[t]) = Len(stack[t]) + 1
            /\ stack'[t][Len(stack'[t])].question.name
                 = Top(t).nameservers[Top(t).k]]_vars

\* C9: when a call of outgoingDnsQuery by the top-level resolution fails,
\* dnsQuery returns that error, and handlePacket then returns it without
\* writing any datagram.
C9_TransportErrorDrops ==
    [][\A t \in Goroutines :
        /\ (/\ Len(stack[t]) = 1
            /\ Running(t, "query") \/ Running(t, "read")
            /\ Moves(t)
            /\ stack'[t][1].pc \notin {"read", "answers"}) =>
                ret'[t].kind = "err" /\ ret'[t].err \in TransportErrors
        /\ (/\ Len(stack[t]) = 1 /\ Returned(t)
            /\ ret[t].kind = "err" /\ ret[t].err \in TransportErrors
            /\ Moves(t)) =>
                /\ tpc'[t] = "done" /\ herr'[t] = ret[t].err
                /\ out'[t] = <<>>
        /\ (tpc'[t] = "done" /\ herr'[t] \in TransportErrors) => out'[t] = <<>>]_vars

\* C9, witness: handlePacket has ended on a failed connection and nothing
\* was written.
C9_Witness ==
    \E t \in Goroutines :
        tpc[t] = "done" /\ herr[t] = "connect" /\ out[t] = <<>>

\* C10: when the top-level resolution returns a Message with result code
\* NameError or ServerFailure, handlePacket writes exactly one datagram, to
\* the sender of the request and with that result code.
C10_TerminalReply ==
    [][\A t \in Goroutines :
        /\ (/\ Len(stack[t]) = 1 /\ Returned(t) /\ ret[t].kind = "msg"
            /\ IsNameError(ret[t].msg) \/ IsServerFailure(ret[t].msg)
            /\ Moves(t)) =>
                /\ tpc'[t] = "done"
                /\ Len(out'[t]) = 1
                /\ out'[t][1].to = req[t].addr
                /\ out'[t][1].buf.rcode = ret[t].msg.rcode
        /\ Len(out'[t]) <= 1]_vars

\* C10, witness: one ServerFailure reply was written to the sender.
C10_Witness ==
    \E t \in Goroutines :
        /\ tpc[t] = "done" /\ Len(out[t]) = 1
        /\ out[t][1].to = req[t].addr /\ req[t].addr = "10.0.0.2:5353"
        /\ out[t][1].buf.rcode = "ServerFailure"

\* C11, as claimed: the queries a resolution causes are bounded for every
\* sequence of replies, circular delegations without glue included.  The
\* calls of dnsQuery keep no memory between them, so this needs that the
\* resolution of a question never calls dnsQuery for that same question:
\* every call starts from getRootServers(), so such a call gets the same
\* replies again and makes the same call in its turn.
C11_Claimed ==
    \A t \in Goroutines :
        \A m, n \in 1..Len(stack[t]) :
            m < n => stack[t][n].question # stack[t][m].question

\* C12, as claimed: a non-authoritative reply without NS record among its
\* authorities makes dnsQuery return NameError at once, and dnsQuery is only
\* called for names that NS records gave (never for the empty name of a
\* slot no NS record filled).
C12_Claimed ==
    [][\A t \in Goroutines :
        /\ (/\ Running(t, "nameservers")
            /\ \A a \in 1..Len(Top(t).authorities) : Top(t).authorities[a].type # "NS"
            /\ Moves(t)) =>
                ret'[t].kind = "msg" /\ ret'[t].msg.rcode = "NameError"
        /\ \A n \in 2..Len(stack'[t]) : stack'[t][n].question.name # ""]_vars

\* C13: an error of a nameserver lookup is not returned by the calling
\* dnsQuery: the caller keeps its servers and newServersFound as they were
\* and moves to the next nameserver; with newServersFound still false it
\* calls dnsQuery for that next nameserver if there is one, and otherwise
\* ends the iteration (next iteration, or ServerFailure after the third).
C13_LookupErrorAbsorbed ==
    [][\A t \in Goroutines :
        /\ (Len(stack[t]) > 1 /\ ret[t].kind = "err" /\ Moves(t)) =>
              /\ ret'[t].kind = "none"
              /\ Len(stack'[t]) = Len(stack[t]) - 1
              /\ LET g == Caller(t)
                     h == stack'[t][Len(stack'[t])]
                 IN  h = [g EXCEPT !.pc = "lookup", !.k = g.k + 1, !.clean = FALSE]
        /\ (Running(t, "lookup") /\ ~Top(t).newServersFound /\ Moves(t)) =>
              LET f == Top(t)
                  h == stack'[t][Len(stack'[t])]
              IN  IF f.k <= Len(f.nameservers)
                  THEN /\ Len(stack'[t]) = Len(stack[t]) + 1
                       /\ h.question = Question(f.nameservers[f.k], "A")
                       /\ h.pc = "query" /\ h.i = 0
                  ELSE IF f.i + 1 < Rounds
                       THEN /\ Len(stack'[t]) = Len(stack[t])
                            /\ h.pc = "query" /\ h.i = f.i + 1
                            /\ h.servers = f.servers
                            /\ ret'[t].kind = "none"
                       ELSE ret'[t] = MsgRet(ServerFailureMessage)]_vars

\* The lookup of a.iana-servers.net. failed, and the lookup of
\* b.iana-servers.net. is under way.
C13_Witness ==
    \E t \in Goroutines :
        /\ Len(stack[t]) = 2 /\ ret[t].kind = "none"
        /\ stack[t][1].pc = "called" /\ stack[t][1].k = 2
        /\ stack[t][1].nameservers = <<NsA, NsB>>
        /\ ~stack[t][1].newServersFound
        /\ stack[t][2].question = Question(NsB, "A")

C15_QuestionCount ==
    [][\A t \in Goroutines :
        (Running(t, "read") /\ Moves(t)) =>
            LET f == Top(t)
                h == Top(t)'
            IN  /\ Len(stack'[t]) = Len(stack[t])
                /\ IF h.questions = 1
                   THEN h.pc \in {"read", "answers"}
                   ELSE /\ ret'[t].kind = "err"
                        /\ ret'[t].err \in {"read", "start", "questions"}
                        /\ h = [f EXCEPT !.questions = h.questions]
                /\ h.pc = "answers" => ret'[t].kind = "none" /\ h.questions = 1
                /\ h.pc # "answers" => ret'[t].kind = "err"]_vars

\* A reply with two questions was refused.
C15_Witness ==
    \E t \in Goroutines :
        /\ Returned(t) /\ ret[t] = ErrRet("questions")
        /\ Top(t).pc = "read" /\ Top(t).questions = 2
        /\ Top(t).parsedAnswers = <<>> /\ Top(t).authorities = <<>>

\* C16, as claimed: each call of outgoingDnsQuery may draw any 16-bit value
\* as the ID of its query, 65535 included.
C16_Claimed ==
    \A t \in Goroutines :
        Running(t, "query") =>
            \A id \in IdSamples : ENABLED (Send(t) /\ qid'[t] = id)

\* C17, as claimed: while another request waits for a reply that never
\* comes, that request has written nothing and reported no error, what a
\* request writes goes to its own sender with its own ID, and a request
\* whose own upstream queries, those of its nameserver lookups included,
\* were all answered with replies that decode gets a Message from its
\* resolution (which is then written back): its resolution does not end in
\* an error.
C17_Claimed ==
    \A t, u \in Goroutines :
        (t # u /\ Running(u, "read")) =>
            /\ out[u] = <<>> /\ herr[u] = ""
            /\ \A k \in 1..Len(out[t]) :
                  out[t][k].to = req[t].addr /\ out[t][k].buf.id = req[t].id
            /\ (Len(stack[t]) = 1 /\ ret[t].kind = "err" /\ Top(t).clean) =>
                  \/ ret[t].err \in {"rand", "write", "read", "start", "questions"}
                  \/ ret[t].err \in SectionErrors
                  \/ ret[t].err = "connect" /\ Top(t).servers # <<>>

\* C18, as claimed: every datagram handlePacket writes has the Response bit
\* of its header set, whatever the outcome of the resolution.
C18_Claimed ==
    \A t \in Goroutines :
        \A k \in 1..Len(out[t]) : out[t][k].buf.qr = 1

\* C19, as claimed: dnsQuery reads the sections of a reply only when the ID
\* of the reply's header is the ID outgoingDnsQuery drew for the query.
C19_Claimed ==
    \A t \in Goroutines :
        (stack[t] # <<>> /\ Top(t).pc \in {"answers", "authoritative", "authorities"}) =>
            Top(t).hdr.id = qid[t]

\* The addresses of a list of servers.
Addrs(servers) == {servers[n] : n \in 1..Len(servers)}

\* C20, as claimed: the servers left by the step that matches the glue
\* contain no address of the servers the iteration started with, and with
\* matching glue they are exactly the addresses of the additional A records
\* owned by a nameserver of that reply.
C20_Claimed ==
    [][\A t \in Goroutines :
        (Running(t, "glue") /\ Moves(t)) =>
            /\ Addrs(Top(t)'.servers) \cap Addrs(Top(t).servers) = {}
            /\ GlueMatches(Top(t)) # {} =>
                  Addrs(Top(t)'.servers) =
                     {Top(t).additionals[a].data : a \in GlueMatches(Top(t))}]_vars

\* C20: the step that matches the glue keeps nothing of the servers the
\* iteration started with: it leaves exactly the addresses of the additional
\* A records whose owner is, letter for letter, a nameserver of that reply
\* (none when nothing matches), so an address of the former servers is there
\* only when such a record gives it again; and a lookup that returns a
\* Message appends the addresses of its A answers and nothing else.
C20_FreshServerSet ==
    [][\A t \in Goroutines :
        /\ (Running(t, "glue") /\ Moves(t)) =>
              /\ Len(stack'[t]) = Len(stack[t])
              /\ Addrs(Top(t)'.servers) =
                    {Top(t).additionals[a].data : a \in GlueMatches(Top(t))}
              /\ \A n \in 1..Len(Top(t)'.servers) :
                    \E a \in 1..Len(Top(t).additionals) :
                        /\ Top(t).additionals[a].type = "A"
                        /\ Top(t).additionals[a].data = Top(t)'.servers[n]
                        /\ \E m \in 1..Len(Top(t).nameservers) :
                              Top(t).nameservers[m] = Top(t).additionals[a].name
        /\ (Len(stack[t]) > 1 /\ ret[t].kind = "msg" /\ Moves(t)) =>
              /\ Len(stack'[t]) = Len(stack[t]) - 1
              /\ Top(t)'.servers = Caller(t).servers \o AnswerAddrs(ret[t].msg.answers)]_vars

\* The third iteration starts with the glue address of b.iana-servers.net.
\* alone, out of a second delegation.
C20_Witness ==
    \E t \in Goroutines :
        /\ Running(t, "query") /\ Top(t).i = 2 /\ Top(t).calls = 2
        /\ Top(t).via = "glue" /\ Top(t).servers = <<"199.43.133.53">>

====
